---- MODULE Spec2Model ----
(***************************************************************************)
(* Lyric video generator: the CLI renderer (src/cli/render.js) and the     *)
(* browser renderer (src/app.js).                                          *)
(*                                                                         *)
(* Time: the source computes in floating-point seconds; here every time is *)
(* an integer number of microseconds.  SRT timestamps lie on the           *)
(* millisecond grid and frame times are floor(i * 10^6 / fps), so every    *)
(* comparison of a frame time with a cue boundary (+/- the 50 ms pad)      *)
(* agrees with the comparison of the exact rationals.                      *)
(*                                                                         *)
(* Scheduling: JavaScript runs each callback to completion, so one action  *)
(* is one turn of the event loop: the code from one await (or event) to    *)
(* the next.                                                               *)
(***************************************************************************)
EXTENDS Integers, Sequences, FiniteSets, TLC

VARIABLES
  \* ---- pure-function harness (parseSrt, currentLyricAt) ----
  fnpc, srt, parsed, qt, found, alpha,
  \* ---- CLI session (src/cli/render.js main) ----
  opts, pc, lyrics, fps, totalFrames, i, lastT, frameLog, writes, drained,
  stdin, delivered, proc, pend, outcome,
  \* ---- browser page (src/app.js): the module state, the audio element,
  \* the buttons, the status line, and the sessions and their resources ----
  page

fnVars == <<fnpc, srt, parsed, qt, found, alpha>>
cliVars == <<opts, pc, lyrics, fps, totalFrames, i, lastT, frameLog, writes,
             drained, stdin, delivered, proc, pend, outcome>>
webVars == <<page>>
vars == <<fnVars, cliVars, webVars>>

----------------------------------------------------------------------------
(* Bounds of the model *)

\* longest transcript (number of blocks) the pure-function harness enumerates
MaxBlocks == 2
\* the input stream's high-water mark, counted in frames
HighWaterMark == 2
\* render sessions one page can start
MaxSessions == 2
\* length of the audio track of the browser sessions, in clock ticks
WebDur == 1

----------------------------------------------------------------------------
(* Program constants *)

Pad == 50000
MergeGap == 150000
MinFps == 15
MaxFps == 60

Max(a, b) == IF a >= b THEN a ELSE b
Min(a, b) == IF a <= b THEN a ELSE b
Abs(a) == IF a < 0 THEN 0 - a ELSE a

----------------------------------------------------------------------------
(* Timeline parser *)

\* h*3600 + m*60 + s + ms/1000, in microseconds
timeToSeconds(h, m, s, ms) == ((h * 3600 + m * 60 + s) * 1000 + ms) * 1000

\* A block of the transcript after line splitting: whether its time line
\* matches the timestamp pattern, the two timestamps' groups, and the text
\* body after tag stripping and trimming ("" when nothing is left).
Stamp(ms) == <<0, 0, ms \div 1000, ms % 1000>>
Block(ok, s, e, txt) == [match |-> ok, from |-> Stamp(s), to |-> Stamp(e), text |-> txt]

\* the first loop of parseSrt: blocks without a time line or without text are skipped
RECURSIVE SrtEntries(_)
SrtEntries(blocks) ==
  IF blocks = <<>> THEN <<>>
  ELSE LET b == Head(blocks)
           start == timeToSeconds(b.from[1], b.from[2], b.from[3], b.from[4])
           end == timeToSeconds(b.to[1], b.to[2], b.to[3], b.to[4])
       IN  IF b.match /\ b.text # ""
           THEN <<[start |-> start, end |-> end, text |-> b.text]>> \o SrtEntries(Tail(blocks))
           ELSE SrtEntries(Tail(blocks))

\* the second loop of parseSrt: merge a repeat of the last kept entry's text.
\* (At a distance of exactly 150 ms the source's floating-point difference
\* can fall on either side of 0.15; the transcripts enumerated below have no
\* two stamps 150 ms apart.)
RECURSIVE MergeEntries(_, _)
MergeEntries(entries, merged) ==
  IF entries = <<>> THEN merged
  ELSE LET e == Head(entries)
           n == Len(merged)
       IN  IF n > 0 /\ merged[n].text = e.text /\ Abs(merged[n].end - e.start) < MergeGap
           THEN MergeEntries(Tail(entries), [merged EXCEPT ![n].end = e.end])
           ELSE MergeEntries(Tail(entries), Append(merged, e))

parseSrt(blocks) == MergeEntries(SrtEntries(blocks), <<>>)

estimateDurationFromLyrics(ls) == IF Len(ls) = 0 THEN 0 ELSE ls[Len(ls)].end

----------------------------------------------------------------------------
(* Lyric lookup *)

NoEntry == [start |-> 0, end |-> 0, text |-> ""]
NoLyric == [index |-> -1, entry |-> NoEntry]

\* the loop of currentLyricAt from (1-based) position k on; the result's
\* index is the source's 0-based index
RECURSIVE LyricScan(_, _, _)
LyricScan(ls, t, k) ==
  IF k > Len(ls) THEN NoLyric
  ELSE LET L == ls[k]
       IN  IF t >= L.start - Pad /\ t <= L.end + Pad THEN [index |-> k - 1, entry |-> L]
           ELSE IF t < L.start THEN NoLyric
           ELSE LyricScan(ls, t, k + 1)

currentLyricAt(ls, t) == LyricScan(ls, t, 1)

----------------------------------------------------------------------------
(* Opacity envelope of drawLyric.  An alpha is held as its multiple of the  *)
(* fade time: Fade stands for alpha 1, and a for alpha a / Fade.            *)

Fade == 180000

\* (mutant) the fade-out is forgotten
LyricAlphaFadeInOnly(entry, t) == Max(0, Min(Fade, t - entry.start))

\* lines 236-239: alpha = min(aIn, aOut), each clamped to [0, 1]
LyricAlpha(entry, t) ==
  LET aIn == Max(0, Min(Fade, t - entry.start))
      aOut == Max(0, Min(Fade, entry.end - t))
  IN  Min(aIn, aOut)

\* the alpha drawLyric sets for time t: none (-1) when no entry is active
drawLyric(ls, t) ==
  LET c == currentLyricAt(ls, t)
  IN  IF c.index = -1 THEN -1 ELSE LyricAlpha(c.entry, t)

----------------------------------------------------------------------------
(* Harness of the pure functions: a transcript is parsed, then looked up *)

StampMs == {0, 2000, 2100, 3000, 5000}
Texts == {"A", "B"}
Blocks ==
  {Block(TRUE, s, e, x) : s \in StampMs, e \in StampMs, x \in Texts}
    \cup {Block(FALSE, 0, 2000, "A"), Block(TRUE, 0, 2000, "")}
Transcripts == UNION {[1..n -> Blocks] : n \in 0..MaxBlocks}
QueryTimes == {1000000, 2040000, 2500000, 2970000}

FnIdle ==
  /\ fnpc = "idle" /\ srt = <<>> /\ parsed = <<>> /\ qt = 0 /\ found = NoLyric
  /\ alpha = -1

FnParse ==
  /\ fnpc = "input"
  /\ parsed' = parseSrt(srt)
  /\ fnpc' = "parsed"
  /\ UNCHANGED <<srt, qt, found, alpha>>
  /\ UNCHANGED <<cliVars, webVars>>

\* the lookup for time t
Lookup(t) ==
  /\ qt' = t
  /\ found' = currentLyricAt(parsed, t)
  /\ fnpc' = "looked"
  /\ UNCHANGED <<srt, parsed, alpha>>
  /\ UNCHANGED <<cliVars, webVars>>

FnLookup ==
  /\ fnpc = "parsed"
  /\ \E t \in QueryTimes : Lookup(t)

\* the lyric is drawn for the time looked up
FnDraw ==
  /\ fnpc = "looked"
  /\ alpha' = drawLyric(parsed, qt)
  /\ fnpc' = "drawn"
  /\ UNCHANGED <<srt, parsed, qt, found>>
  /\ UNCHANGED <<cliVars, webVars>>

\* Harness of the envelope: one cue of 100, 340, 350, 360 or 400 ms that
\* starts at 0 s or at 10 s, drawn at every 10 ms from 60 ms before its
\* start to 60 ms after its end.
EnvCues ==
  {Block(TRUE, s, s + d, "A") : s \in {0, 10000}, d \in {100, 340, 350, 360, 400}}
EnvTranscripts == {<<b>> : b \in EnvCues}
EnvTimes(ls) ==
  UNION {{L.start - 60000 + 10000 * k : k \in 0..((L.end - L.start) \div 10000 + 12)} :
           L \in {ls[j] : j \in 1..Len(ls)}}

EnvLookup ==
  /\ fnpc = "parsed"
  /\ \E t \in EnvTimes(parsed) : Lookup(t)

EnvInit ==
  /\ fnpc = "input" /\ srt \in EnvTranscripts /\ parsed = <<>> /\ qt = 0
  /\ found = NoLyric /\ alpha = -1

EnvNext == FnParse \/ EnvLookup \/ FnDraw

----------------------------------------------------------------------------
(* CLI session: main() of src/cli/render.js *)

\* (mutant) the requested rate is used as it is
ClampFpsNone(n) == n

\* Math.max(15, Math.min(60, parseInt(opts.fps)))
ClampFps(n) == Max(MinFps, Min(MaxFps, n))

\* (mutant) the frame count is rounded down
CeilFramesFloor(durUs, rate) == (durUs * rate) \div 1000000

\* Math.ceil(durationSec * fps)
CeilFrames(durUs, rate) == (durUs * rate + 999999) \div 1000000

\* t = i / fps
FrameTime(k, rate) == (k * 1000000) \div rate

\* one iteration's drawing (lines 378-390): the time, the delta handed to
\* the background animator, and the entry drawLyric looks up
DrawFrame(k, rate, prevT, ls) ==
  LET t == FrameTime(k, rate)
  IN  [t |-> t, dt |-> IF k = 0 THEN 0 ELSE t - prevT, lyric |-> currentLyricAt(ls, t).index]

\* Number(x) of one piece of the resolution option: the empty string is 0, a
\* piece that is missing or not a number is NaN (finite: FALSE)
NumberOf(x) ==
  IF x = "1920" THEN [finite |-> TRUE, val |-> 1920]
  ELSE IF x = "1080" THEN [finite |-> TRUE, val |-> 1080]
  ELSE IF x = "" THEN [finite |-> TRUE, val |-> 0]
  ELSE [finite |-> FALSE, val |-> 0]

\* parseResolution on the option already split at "x": the first two pieces
\* are converted, and the value is rejected when one of them is not finite
parseResolution(parts) ==
  LET w == IF Len(parts) >= 1 THEN NumberOf(parts[1]) ELSE NumberOf("undefined")
      h == IF Len(parts) >= 2 THEN NumberOf(parts[2]) ELSE NumberOf("undefined")
  IN  [ok |-> w.finite /\ h.finite, width |-> w.val, height |-> h.val]

Running == [kind |-> "running", msg |-> "", code |-> 0]
Ended(kind, msg, code) == [kind |-> kind, msg |-> msg, code |-> code]

NoProc == [state |-> "none", code |-> 0, listening |-> FALSE]
NoStdin == [buf |-> <<>>, needDrain |-> FALSE, ended |-> FALSE, destroyed |-> FALSE]
NoPend == [spawnErr |-> FALSE, epipe |-> FALSE]

\* (mutant) a write that finds the buffer full drops its chunk
StdinWriteDropping(s, f) ==
  IF s.destroyed \/ Len(s.buf) + 1 >= HighWaterMark
  THEN [ok |-> FALSE, stdin |-> [s EXCEPT !.needDrain = ~s.destroyed]]
  ELSE [ok |-> TRUE, stdin |-> [s EXCEPT !.buf = Append(s.buf, f)]]

\* proc.stdin.write(png): a destroyed stream drops the chunk and reports
\* false; otherwise the chunk is buffered and the result tells whether the
\* buffer is still under the high-water mark
StdinWrite(s, f) ==
  IF s.destroyed THEN [ok |-> FALSE, stdin |-> s]
  ELSE LET b == Append(s.buf, f)
       IN  [ok |-> Len(b) < HighWaterMark,
            stdin |-> [s EXCEPT !.buf = b, !.needDrain = ~(Len(b) < HighWaterMark)]]

\* (mutant) the loop goes on whatever the write reported
AfterWriteIgnoring(ok) == "loop"

\* where the loop goes after a write: on, or to the wait for 'drain'
AfterWrite(ok) == IF ok THEN "loop" ELSE "drain"

HiBye == <<Block(TRUE, 0, 2000, "Hi"), Block(TRUE, 2000, 4000, "Bye")>>
OneShort == <<Block(TRUE, 0, 100, "A")>>
ZeroEnd == <<Block(TRUE, 0, 0, "A")>>
NoCue == <<Block(FALSE, 0, 2000, "A")>>
ProbeUs == {0, 200000, 4000000, 10000000}
FpsOpts == {10, 30}
ExitCodes == {0, 1}

\* The options and the environment of one run.  resolution is the option
\* split at "x"; canvasFallback tells what createCanvas of the installed
\* @napi-rs/canvas does with a dimension of 0: fall back to a default size
\* (TRUE) or throw (FALSE).
GoodOpts ==
  {[audio |-> TRUE, srtFile |-> TRUE, resolution |-> <<"1920", "1080">>,
    canvasFallback |-> TRUE, ffmpegPath |-> TRUE,
    srt |-> x, fpsOpt |-> f, probe |-> d, spawnOk |-> k] :
     x \in {HiBye, OneShort}, f \in FpsOpts, d \in ProbeUs, k \in BOOLEAN}
BaseOpts ==
  [audio |-> TRUE, srtFile |-> TRUE, resolution |-> <<"1920", "1080">>,
   canvasFallback |-> TRUE, ffmpegPath |-> TRUE,
   srt |-> OneShort, fpsOpt |-> 30, probe |-> 0, spawnOk |-> TRUE]
\* resolutions "1920", "widexhigh", "1920x" and "x"
BadResolutions == {<<"1920">>, <<"wide", "high">>, <<"1920", "">>, <<"", "">>}
BadOpts ==
  {[BaseOpts EXCEPT !.audio = FALSE], [BaseOpts EXCEPT !.srtFile = FALSE],
   [BaseOpts EXCEPT !.ffmpegPath = FALSE],
   [BaseOpts EXCEPT !.srt = NoCue], [BaseOpts EXCEPT !.srt = ZeroEnd]}
    \cup {[BaseOpts EXCEPT !.resolution = r, !.canvasFallback = c] :
             r \in BadResolutions, c \in BOOLEAN}

CliIdle ==
  /\ opts = BaseOpts /\ pc = "idle" /\ lyrics = <<>> /\ fps = 0 /\ totalFrames = 0
  /\ i = 0 /\ lastT = 0 /\ frameLog = <<>> /\ writes = 0 /\ drained = FALSE
  /\ stdin = NoStdin /\ delivered = <<>> /\ proc = NoProc /\ pend = NoPend
  /\ outcome = Running

CliInit ==
  /\ opts \in GoodOpts \cup BadOpts
  /\ pc = "main" /\ lyrics = <<>> /\ fps = 0 /\ totalFrames = 0
  /\ i = 0 /\ lastT = 0 /\ frameLog = <<>> /\ writes = 0 /\ drained = FALSE
  /\ stdin = NoStdin /\ delivered = <<>> /\ proc = NoProc /\ pend = NoPend
  /\ outcome = Running

\* main().catch: console.error, process.exit(1)
Fatal(msg, code) ==
  /\ outcome' = Ended("fatal", msg, code)
  /\ pc' = "exited"

\* lines 281-316: options, the files' existence, the transcript
MainStart ==
  /\ pc = "main"
  /\ fps' = ClampFps(opts.fpsOpt)
  /\ IF ~parseResolution(opts.resolution).ok THEN Fatal("Bad resolution", 0) /\ UNCHANGED lyrics
     ELSE IF ~opts.audio THEN Fatal("Audio not found", 0) /\ UNCHANGED lyrics
     ELSE IF ~opts.srtFile THEN Fatal("SRT not found", 0) /\ UNCHANGED lyrics
     ELSE /\ lyrics' = parseSrt(opts.srt)
          /\ IF Len(parseSrt(opts.srt)) = 0
             THEN Fatal("No lyrics parsed from SRT.", 0)
             ELSE pc' = "probe" /\ UNCHANGED outcome
  /\ UNCHANGED <<opts, totalFrames, i, lastT, frameLog, writes, drained, stdin,
                 delivered, proc, pend>>
  /\ UNCHANGED <<fnVars, webVars>>

\* the loop header at index k (line 377) after the stream has become s: the
\* next frame is drawn and its encoding started (378-393), or the stream is
\* ended and the listeners for 'close' and 'error' are attached (404-411)
LoopAt(k, total, s) ==
  /\ i' = k
  /\ IF k < total
     THEN /\ frameLog' = Append(frameLog, DrawFrame(k, fps, lastT, lyrics))
          /\ lastT' = FrameTime(k, fps)
          /\ stdin' = s
          /\ pc' = "encode"
          /\ UNCHANGED proc
     ELSE /\ stdin' = [s EXCEPT !.ended = TRUE]
          /\ proc' = [proc EXCEPT !.listening = TRUE]
          /\ pc' = "close"
          /\ UNCHANGED <<frameLog, lastT>>

\* lines 317-393: the duration, the frame count, the canvas, the spawn, and
\* the first iteration up to its await of canvas.encode
AfterProbe ==
  /\ pc = "probe"
  /\ LET d == IF opts.probe > 0 THEN opts.probe ELSE estimateDurationFromLyrics(lyrics)
         total == CeilFrames(d, fps)
     IN  IF d <= 0
         THEN /\ Fatal("Unable to determine duration from audio or SRT.", 0)
              /\ UNCHANGED <<totalFrames, i, lastT, frameLog, stdin, proc, pend>>
         ELSE IF (parseResolution(opts.resolution).width <= 0
                    \/ parseResolution(opts.resolution).height <= 0)
                 /\ ~opts.canvasFallback
         THEN /\ Fatal("createCanvas failed", 0)
              /\ totalFrames' = total
              /\ UNCHANGED <<i, lastT, frameLog, stdin, proc, pend>>
         ELSE IF ~opts.ffmpegPath
         THEN /\ Fatal("ffmpeg binary not found (ffmpeg-static).", 0)
              /\ totalFrames' = total
              /\ UNCHANGED <<i, lastT, frameLog, stdin, proc, pend>>
         ELSE /\ totalFrames' = total
              /\ proc' = [state |-> IF opts.spawnOk THEN "running" ELSE "failed",
                          code |-> 0, listening |-> FALSE]
              /\ pend' = [pend EXCEPT !.spawnErr = ~opts.spawnOk]
              /\ i' = 0
              /\ frameLog' = Append(frameLog, DrawFrame(0, fps, lastT, lyrics))
              /\ lastT' = FrameTime(0, fps)
              /\ pc' = "encode"
              /\ UNCHANGED <<stdin, outcome>>
  /\ UNCHANGED <<opts, lyrics, fps, writes, drained, delivered>>
  /\ UNCHANGED <<fnVars, webVars>>

\* lines 393-401: the encoded frame is written; the loop goes on when the
\* write reported room and otherwise waits for 'drain'.  A write into the
\* pipe of an encoder that has died (and is not yet reaped) fails later
\* with EPIPE.
EncodeDone ==
  /\ pc = "encode"
  /\ ~pend.spawnErr
  /\ LET w == StdinWrite(stdin, i)
     IN  /\ writes' = writes + 1
         /\ pend' = [pend EXCEPT !.epipe = @ \/ (proc.state = "dead" /\ ~stdin.destroyed)]
         /\ IF AfterWrite(w.ok) = "loop"
            THEN LoopAt(i + 1, totalFrames, w.stdin)
            ELSE /\ stdin' = w.stdin
                 /\ pc' = "drain"
                 /\ UNCHANGED <<i, lastT, frameLog, proc>>
  /\ UNCHANGED <<opts, lyrics, fps, totalFrames, drained, delivered, outcome>>
  /\ UNCHANGED <<fnVars, webVars>>

\* line 395: 'drain' is emitted once the buffer has emptied after a write
\* that reported false; the loop resumes
Drain ==
  /\ pc = "drain"
  /\ stdin.needDrain /\ stdin.buf = <<>> /\ ~stdin.destroyed
  /\ drained' = TRUE
  /\ LoopAt(i + 1, totalFrames, [stdin EXCEPT !.needDrain = FALSE])
  /\ UNCHANGED <<opts, lyrics, fps, totalFrames, writes, delivered, pend, outcome>>
  /\ UNCHANGED <<fnVars, webVars>>

\* the encoder reads the oldest buffered frame from its standard input
EncoderConsume ==
  /\ pc \in {"encode", "drain", "close"}
  /\ proc.state = "running"
  /\ stdin.buf # <<>>
  /\ delivered' = Append(delivered, Head(stdin.buf))
  /\ stdin' = [stdin EXCEPT !.buf = Tail(@)]
  /\ UNCHANGED <<opts, pc, lyrics, fps, totalFrames, i, lastT, frameLog, writes,
                 drained, proc, pend, outcome>>
  /\ UNCHANGED <<fnVars, webVars>>

\* the encoder terminates: with code 0 once it has read its input to the
\* end, with a non-zero code at any time.  A write still in flight then
\* fails with EPIPE, or is discarded silently when the stream is destroyed
\* first.
EncoderExit ==
  /\ pc \in {"encode", "drain", "close"}
  /\ proc.state = "running"
  /\ \E c \in ExitCodes, e \in BOOLEAN :
       /\ c = 0 => stdin.ended /\ stdin.buf = <<>>
       /\ e => stdin.buf # <<>>
       /\ proc' = [proc EXCEPT !.state = "dead", !.code = c]
       /\ pend' = [pend EXCEPT !.epipe = @ \/ e]
  /\ UNCHANGED <<opts, pc, lyrics, fps, totalFrames, i, lastT, frameLog, writes,
                 drained, stdin, delivered, outcome>>
  /\ UNCHANGED <<fnVars, webVars>>

\* lines 405-414: the child's exit reaches the event loop: its stdin is
\* destroyed and 'close' is emitted, to the listener of line 406 when it is
\* attached already and to nobody otherwise
ProcOnExit ==
  /\ pc \in {"encode", "drain", "close"}
  /\ proc.state = "dead"
  /\ proc' = [proc EXCEPT !.state = "reaped"]
  /\ stdin' = [stdin EXCEPT !.buf = <<>>, !.destroyed = TRUE]
  /\ IF proc.listening
     THEN IF proc.code = 0
          THEN outcome' = Ended("done", "Done", 0) /\ pc' = "exited"
          ELSE Fatal("ffmpeg exited with code", proc.code)
     ELSE UNCHANGED <<pc, outcome>>
  /\ UNCHANGED <<opts, lyrics, fps, totalFrames, i, lastT, frameLog, writes,
                 drained, delivered, pend>>
  /\ UNCHANGED <<fnVars, webVars>>

\* 'error' on proc.stdin: nothing listens for it, so it is thrown as an
\* uncaught exception and the process dies
StdinError ==
  /\ pc \in {"encode", "drain", "close"}
  /\ pend.epipe
  /\ outcome' = Ended("uncaught", "write EPIPE", 0)
  /\ pc' = "exited"
  /\ pend' = [pend EXCEPT !.epipe = FALSE]
  /\ UNCHANGED <<opts, lyrics, fps, totalFrames, i, lastT, frameLog, writes,
                 drained, stdin, delivered, proc>>
  /\ UNCHANGED <<fnVars, webVars>>

\* lines 374, 410: a failed spawn emits 'error' on the next tick, before any
\* I/O completes; with the listener of line 410 attached the promise
\* rejects, without it the event is thrown as an uncaught exception
SpawnError ==
  /\ pc \in {"encode", "drain", "close"}
  /\ pend.spawnErr
  /\ pend' = [pend EXCEPT !.spawnErr = FALSE]
  /\ IF proc.listening
     THEN Fatal("spawn ENOENT", 0)
     ELSE outcome' = Ended("uncaught", "spawn ENOENT", 0) /\ pc' = "exited"
  /\ UNCHANGED <<opts, lyrics, fps, totalFrames, i, lastT, frameLog, writes,
                 drained, stdin, delivered, proc>>
  /\ UNCHANGED <<fnVars, webVars>>

\* lines 395, 405: main awaits a promise nothing can settle any more (the
\* stream is destroyed, 'close' has been emitted); the event loop runs empty
\* and the process exits with status 0 and no message
EventLoopEmpty ==
  /\ pc \in {"drain", "close"}
  /\ proc.state = "reaped"
  /\ ~pend.epipe
  /\ outcome' = Ended("silent", "", 0)
  /\ pc' = "exited"
  /\ UNCHANGED <<opts, lyrics, fps, totalFrames, i, lastT, frameLog, writes,
                 drained, stdin, delivered, proc, pend>>
  /\ UNCHANGED <<fnVars, webVars>>

CliNext ==
  \/ MainStart
  \/ AfterProbe
  \/ EncodeDone
  \/ Drain
  \/ EncoderConsume
  \/ EncoderExit
  \/ ProcOnExit
  \/ StdinError
  \/ SpawnError
  \/ EventLoopEmpty

----------------------------------------------------------------------------
(* Browser page: src/app.js.  A session is one call of renderAll; session  *)
(* s creates recorder s and, on the WebAudio path, audio context s.        *)

Sessions == 1..MaxSessions

\* abortedAt and lateDraw record history: where the session was suspended when
\* its signal was aborted, and whether it has drawn a frame after that
NoSess == [pc |-> "none", web |-> FALSE, aborted |-> FALSE, lastT |-> 0,
           abortedAt |-> "", lateDraw |-> FALSE]
NoRec == [state |-> "none", stopPending |-> FALSE, stoppedBy |-> 0]
NoCtx == [state |-> "none", time |-> 0, closedBy |-> 0]

canStart(g) == (g.loaded.audioSrc \/ g.loaded.audioBuffer) /\ g.loaded.lyrics

\* the three buttons' disabled flags
setControlsState(g, state) ==
  [g EXCEPT !.ctl =
     IF state = "idle" THEN [start |-> ~canStart(g), cancel |-> TRUE, download |-> TRUE]
     ELSE IF state = "ready" THEN [start |-> FALSE, cancel |-> TRUE, download |-> TRUE]
     ELSE IF state = "rendering" THEN [start |-> TRUE, cancel |-> FALSE, download |-> TRUE]
     ELSE [start |-> FALSE, cancel |-> TRUE, download |-> g.recordedChunks = <<>>]]

\* stopRecording(), called on behalf of session by: the recorder the global
\* mediaRecorder names is stopped when it is not inactive
stopRecording(g, by) ==
  IF g.mediaRecorder # 0 /\ g.rec[g.mediaRecorder].state = "recording"
  THEN [g EXCEPT !.rec[g.mediaRecorder] =
          [state |-> "inactive", stopPending |-> TRUE, stoppedBy |-> by]]
  ELSE g

\* webAudioSource.stop(), webAudioCtx.close() and the reset of the globals
closeWebAudio(g, by) ==
  LET c == g.webAudio.ctx
      g1 == IF c # 0 /\ g.actx[c].state = "running"
            THEN [g EXCEPT !.actx[c] = [state |-> "closed", time |-> 0, closedBy |-> by]]
            ELSE g
  IN  [g1 EXCEPT !.webAudio = [ctx |-> 0, source |-> 0]]

\* lines 463-477: what renderAll does once its loop has been left
Teardown(g, s) ==
  LET g1 == stopRecording(g, s)
      g2 == IF g.sess[s].web THEN closeWebAudio(g1, s)
            ELSE [g1 EXCEPT !.audioEl.paused = TRUE]
  IN  [g2 EXCEPT !.status = "Finalizing...", !.sess[s].pc = "finished", !.sess[s].lastT = 0]

\* (mutant) the loop does not look at the abort signal
LoopIterNoAbortCheck(g, s) ==
  LET me == g.sess[s]
      t == IF me.web
           THEN (IF g.webAudio.ctx # 0 THEN Max(0, g.actx[g.webAudio.ctx].time) ELSE me.lastT)
           ELSE g.audioEl.currentTime
      drawn == [g EXCEPT !.sess[s].lastT = t, !.sess[s].lateDraw = @ \/ me.aborted]
  IN  IF t >= WebDur \/ (~me.web /\ g.audioEl.ended) THEN Teardown(drawn, s)
      ELSE [drawn EXCEPT !.sess[s].pc = "pace"]

\* lines 423-461: one iteration of the render loop of session s: the abort
\* check, the time, the frame, the stop condition
LoopIter(g, s) ==
  LET me == g.sess[s]
      t == IF me.web
           THEN (IF g.webAudio.ctx # 0 THEN Max(0, g.actx[g.webAudio.ctx].time) ELSE me.lastT)
           ELSE g.audioEl.currentTime
      drawn == [g EXCEPT !.sess[s].lastT = t, !.sess[s].lateDraw = @ \/ me.aborted]
  IN  IF me.aborted THEN Teardown(g, s)
      ELSE IF t >= WebDur \/ (~me.web /\ g.audioEl.ended) THEN Teardown(drawn, s)
      ELSE [drawn EXCEPT !.sess[s].pc = "pace"]

\* lines 384-420: renderAll up to its first suspension
renderAllStart(g, s) ==
  LET web == g.loaded.audioBuffer
      g1 == [setControlsState(g, "rendering") EXCEPT !.status = "Rendering...", !.nsess = s]
      g2 == IF web
            THEN [g1 EXCEPT !.actx[s] = [state |-> "running", time |-> 0, closedBy |-> 0],
                            !.webAudio = [ctx |-> s, source |-> s]]
            ELSE g1
      g3 == [g2 EXCEPT !.recordedChunks = <<>>,
                       !.rec[s] = [state |-> "recording", stopPending |-> FALSE, stoppedBy |-> 0],
                       !.mediaRecorder = s,
                       !.renderAbortController = s,
                       !.sess[s] = [NoSess EXCEPT !.web = web, !.pc = "play"]]
  IN  IF web THEN LoopIter(g3, s)
      ELSE [g3 EXCEPT !.audioEl.currentTime = 0, !.audioEl.ended = FALSE]

\* lines 550-571
cancelHandler(g) ==
  LET s == g.renderAbortController
      g1 == IF s # 0
            THEN [g EXCEPT !.sess[s].aborted = TRUE,
                           !.sess[s].abortedAt = IF g.sess[s].aborted THEN @ ELSE g.sess[s].pc]
            ELSE g
      g2 == stopRecording(g1, s)
      g3 == [g2 EXCEPT !.audioEl.paused = TRUE]
      g4 == closeWebAudio(g3, s)
  IN  [setControlsState(g4, "idle") EXCEPT !.status = "Cancelled"]

\* lines 351-358: the recorder delivers its data (d: whether any was
\* recorded) and then its stop event
recorderStopped(g, r, d) ==
  LET g1 == [g EXCEPT !.rec[r].stopPending = FALSE,
                      !.recordedChunks = IF d THEN Append(@, r) ELSE @]
  IN  [setControlsState(g1, "done") EXCEPT !.status = "Render complete", !.presented = r]

WebIdle ==
  page =
    [loaded |-> [audioSrc |-> FALSE, audioBuffer |-> FALSE, lyrics |-> FALSE],
     audioEl |-> [paused |-> TRUE, currentTime |-> 0, ended |-> FALSE],
     ctl |-> [start |-> TRUE, cancel |-> TRUE, download |-> TRUE],
     status |-> "",
     nsess |-> 0,
     sess |-> [s \in Sessions |-> NoSess],
     rec |-> [s \in Sessions |-> NoRec],
     actx |-> [s \in Sessions |-> NoCtx],
     renderAbortController |-> 0,
     mediaRecorder |-> 0,
     webAudio |-> [ctx |-> 0, source |-> 0],
     recordedChunks |-> <<>>,
     presented |-> 0]

\* lines 36-48, 596-597: the page after the script has run
WebInit == WebIdle

\* lines 507-526: an audio file is chosen; its decoding starts
AudioChosen ==
  /\ page' = [page EXCEPT !.loaded.audioSrc = TRUE, !.status = "Audio loaded",
                          !.ctl.start = ~page.loaded.lyrics]
  /\ UNCHANGED <<fnVars, cliVars>>

\* lines 513-524: the decoding of a chosen file settles, with a buffer or
\* without
AudioDecoded ==
  /\ page.loaded.audioSrc
  /\ \E ok \in BOOLEAN :
       LET g == [page EXCEPT !.loaded.audioBuffer = ok,
                            !.status = IF ok THEN "Audio decoded" ELSE @]
       IN  page' = [g EXCEPT !.ctl.start = ~canStart(g)]
  /\ UNCHANGED <<fnVars, cliVars>>

\* lines 528-539: a transcript is chosen (with some cue, or with none)
SrtChosen ==
  /\ \E n \in BOOLEAN :
       LET g == [page EXCEPT !.loaded.lyrics = n,
                            !.status = IF n THEN "Parsed lyric lines" ELSE "Failed to parse SRT"]
       IN  page' = [g EXCEPT !.ctl.start = ~canStart(g)]
  /\ UNCHANGED <<fnVars, cliVars>>

\* lines 545-548
StartClick ==
  /\ ~page.ctl.start
  /\ page.nsess < MaxSessions
  /\ page' = renderAllStart(page, page.nsess + 1)
  /\ UNCHANGED <<fnVars, cliVars>>

CancelClick ==
  /\ ~page.ctl.cancel
  /\ page' = cancelHandler(page)
  /\ UNCHANGED <<fnVars, cliVars>>

\* lines 416-419: audioEl.play() settles; when the element is playing the
\* wait for the playback start resolves at once and the loop is entered,
\* otherwise the 'playing' event or the 300 ms timer is awaited
PlaySettled(s) ==
  /\ page.sess[s].pc = "play"
  /\ \E ok \in BOOLEAN :
       LET g == [page EXCEPT !.audioEl.paused = IF ok THEN FALSE ELSE @]
       IN  page' = IF ~g.audioEl.paused THEN LoopIter(g, s)
                   ELSE [g EXCEPT !.sess[s].pc = "playing"]
  /\ UNCHANGED <<fnVars, cliVars>>

\* lines 489-500: 'playing' or the timer ends the wait for the playback start
PlaybackStarted(s) ==
  /\ page.sess[s].pc = "playing"
  /\ page' = LoopIter(page, s)
  /\ UNCHANGED <<fnVars, cliVars>>

\* line 460: the pacing timer fires
PaceElapsed(s) ==
  /\ page.sess[s].pc = "pace"
  /\ page' = LoopIter(page, s)
  /\ UNCHANGED <<fnVars, cliVars>>

RecorderStopped(r) ==
  /\ page.rec[r].stopPending
  /\ \E d \in BOOLEAN : page' = recorderStopped(page, r, d)
  /\ UNCHANGED <<fnVars, cliVars>>

\* the clock of a running audio context advances
ContextTick(c) ==
  /\ page.actx[c].state = "running"
  /\ page.actx[c].time < WebDur
  /\ page' = [page EXCEPT !.actx[c].time = @ + 1]
  /\ UNCHANGED <<fnVars, cliVars>>

\* the audio element plays on, up to the end of the track
AudioTick ==
  /\ ~page.audioEl.paused
  /\ page.audioEl.currentTime < WebDur
  /\ page' = [page EXCEPT !.audioEl.currentTime = @ + 1,
                          !.audioEl.ended = (page.audioEl.currentTime + 1 = WebDur),
                          !.audioEl.paused = (page.audioEl.currentTime + 1 = WebDur)]
  /\ UNCHANGED <<fnVars, cliVars>>

WebNext ==
  \/ AudioChosen
  \/ AudioDecoded
  \/ SrtChosen
  \/ StartClick
  \/ CancelClick
  \/ \E s \in Sessions : PlaySettled(s)
  \/ \E s \in Sessions : PlaybackStarted(s)
  \/ \E s \in Sessions : PaceElapsed(s)
  \/ \E r \in Sessions : RecorderStopped(r)
  \/ \E c \in Sessions : ContextTick(c)
  \/ AudioTick

\* the page on its own
WebStart == WebInit /\ FnIdle /\ CliIdle

SpecWeb == WebStart /\ [][WebNext]_vars

\* What the browser's scheduling guarantees: a promise of play() settles,
\* timers fire, a stopped recorder delivers its stop event, and the clocks of
\* a running audio context and of a playing audio element advance.  Nothing
\* is assumed of the user's clicks and file choices.
WebFairness ==
  /\ \A s \in Sessions :
       /\ WF_vars(PlaySettled(s))
       /\ WF_vars(PlaybackStarted(s))
       /\ WF_vars(PaceElapsed(s))
       /\ WF_vars(RecorderStopped(s))
       /\ WF_vars(ContextTick(s))
  /\ WF_vars(AudioTick)

SpecWebLive == WebStart /\ [][WebNext]_vars /\ WebFairness

\* The page of a user who chooses files only between renders: no input
\* handler runs while a render session is in flight (started, and its loop
\* not yet left).
NoRenderInFlight == \A s \in Sessions : page.sess[s].pc \in {"none", "finished"}

AudioChosenBetween == NoRenderInFlight /\ AudioChosen
AudioDecodedBetween == NoRenderInFlight /\ AudioDecoded
SrtChosenBetween == NoRenderInFlight /\ SrtChosen

WebQuietNext ==
  \/ AudioChosenBetween
  \/ AudioDecodedBetween
  \/ SrtChosenBetween
  \/ StartClick
  \/ CancelClick
  \/ \E s \in Sessions : PlaySettled(s)
  \/ \E s \in Sessions : PlaybackStarted(s)
  \/ \E s \in Sessions : PaceElapsed(s)
  \/ \E r \in Sessions : RecorderStopped(r)
  \/ \E c \in Sessions : ContextTick(c)
  \/ AudioTick

SpecWebQuiet == WebStart /\ [][WebQuietNext]_vars


FnInit ==
  /\ fnpc = "input" /\ srt \in Transcripts /\ parsed = <<>> /\ qt = 0 /\ found = NoLyric
  /\ alpha = -1

FnNext == FnParse \/ FnLookup \/ FnDraw

\* a CLI session on its own, and the pure functions on their own
CliStart == CliInit /\ FnIdle /\ WebIdle
FnStart == FnInit /\ CliIdle /\ WebIdle

SpecCli == CliStart /\ [][CliNext]_vars
SpecFn == FnStart /\ [][FnNext]_vars

\* the envelope harness on its own
EnvStart == EnvInit /\ CliIdle /\ WebIdle
SpecEnv == EnvStart /\ [][EnvNext]_vars

----------------------------------------------------------------------------
(* Properties *)

Ascending(n) == [k \in 1..n |-> k - 1]

\* C1: whatever the encoder's consumption schedule, the frames that reach
\* the encoder are frames 0, 1, 2, ... in ascending order with none dropped,
\* duplicated or reordered: while the encoder runs, what it has read followed
\* by what the stream still buffers is exactly the frames written so far, and
\* a session that ends with Done has delivered every one of the N frames it
\* produced.
C1_FramesDeliveredInOrder ==
  /\ \A k \in 1..Len(delivered) : delivered[k] = k - 1
  /\ proc.state = "running" => delivered \o stdin.buf = Ascending(writes)
  /\ outcome.kind = "done" =>
       /\ delivered = Ascending(totalFrames)
       /\ Len(frameLog) = Len(delivered)

\* a completed session whose producer had to wait for 'drain'
C1_Witness ==
  /\ outcome.kind = "done"
  /\ drained
  /\ totalFrames > HighWaterMark
  /\ Len(delivered) = totalFrames

\* C2: from a write that reported a full buffer until 'drain' is emitted, no
\* frame is rendered and none is written; the stream therefore never buffers
\* more than the high-water mark.
C2_BackpressureSuspends ==
  /\ [](Len(stdin.buf) <= HighWaterMark)
  /\ [][stdin.needDrain /\ stdin'.needDrain =>
          frameLog' = frameLog /\ writes' = writes]_vars

\* the producer is suspended on a full stream with frames still to render
C2_Witness ==
  /\ pc = "drain"
  /\ stdin.needDrain
  /\ Len(stdin.buf) = HighWaterMark
  /\ proc.state = "running"
  /\ Len(frameLog) < totalFrames

\* C3: a session whose encoder has terminated with a non-zero exit code ends
\* with the fatal error that reports this code (and so never with Done).
C3_NonZeroExitReported ==
  (pc = "exited" /\ proc.state \in {"dead", "reaped"} /\ proc.code # 0) =>
     outcome = Ended("fatal", "ffmpeg exited with code", proc.code)

\* C4: when the failure to spawn the encoder is reported, no frame has been
\* drawn or encoded and nothing has been written to the encoder.
C4_SpawnFailureBeforeFrameWork ==
  outcome.msg = "spawn ENOENT" => frameLog = <<>> /\ writes = 0

\* C8: frame k of a session is rendered for time k / fps, the delta handed to
\* the background animator is 0 for frame 0 and the difference of the two
\* frame times afterwards, and a session that completes has produced and
\* written exactly ceil(d * fps) frames (300 for 10 s at 30 fps).
C8_FrameClock ==
  /\ \A k \in 1..Len(frameLog) :
       /\ frameLog[k].t * fps <= (k - 1) * 1000000
       /\ (k - 1) * 1000000 < (frameLog[k].t + 1) * fps
       /\ frameLog[k].dt = IF k = 1 THEN 0 ELSE frameLog[k].t - frameLog[k - 1].t
  /\ outcome.kind = "done" =>
       LET d == IF opts.probe > 0 THEN opts.probe ELSE lyrics[Len(lyrics)].end
           n == Len(frameLog)
       IN  /\ writes = n
           /\ n * 1000000 >= d * fps
           /\ (n - 1) * 1000000 < d * fps
           /\ (d = 10000000 /\ fps = 30) => n = 300

\* a completed session of 10 s at 30 fps, and so of 300 frames
C8_Witness ==
  /\ outcome.kind = "done"
  /\ opts.probe = 10000000 /\ fps = 30
  /\ Len(frameLog) = 300

Scenario == opts.srt = HiBye /\ opts.probe = 4000000 /\ opts.fpsOpt = 10

ShownText(k) ==
  IF frameLog[k].lyric < 0 THEN "" ELSE lyrics[frameLog[k].lyric + 1].text

\* C9 as stated: the scenario renders 40 frames, frames 0 to 19 with "Hi"
\* active and frames 20 to 39 with "Bye" active.
C9_Original ==
  (Scenario /\ outcome.kind = "done") =>
     /\ Len(frameLog) = 40
     /\ \A k \in 1..20 : ShownText(k) = "Hi"
     /\ \A k \in 21..40 : ShownText(k) = "Bye"

\* C9 (amended): the requested 10 fps are clamped to 15 fps, so the scenario
\* renders 60 frames; "Hi" is the active entry in frames 0 to 30 (through
\* t = 2.0 s, inside its pad) and "Bye" in frames 31 to 59.
C9_Amended ==
  (Scenario /\ outcome.kind = "done") =>
     /\ fps = 15
     /\ Len(frameLog) = 60
     /\ \A k \in 1..31 : ShownText(k) = "Hi"
     /\ \A k \in 32..60 : ShownText(k) = "Bye"

\* the scenario's session has completed
C9_Witness == Scenario /\ outcome.kind = "done" /\ Len(delivered) = totalFrames

InWindow(L, t) == t >= L.start - Pad /\ t <= L.end + Pad

AB == <<[start |-> 0, end |-> 2000000, text |-> "A"],
        [start |-> 3000000, end |-> 5000000, text |-> "B"]>>

\* C10: for every timeline the parser returns and every time t, the lookup
\* returns the lowest-index entry whose padded window contains t, and none
\* only when no window contains t; for [{0,2,A},{3,5,B}] it returns A at
\* 1.0 and at 2.04 and none at 2.5.
C10_LookupCorrectness ==
  fnpc = "looked" =>
    LET M == {k \in 1..Len(parsed) : InWindow(parsed[k], qt)}
    IN  /\ (M = {}) <=> (found.index = -1)
        /\ M # {} => /\ found.index + 1 \in M
                     /\ \A k \in M : found.index + 1 <= k
        /\ parsed = AB =>
             /\ qt \in {1000000, 2040000} => found.entry.text = "A"
             /\ qt = 2500000 => found.index = -1

\* C11: every two adjacent entries (A, B) of the parser's output satisfy
\* A.start <= B.start, whatever the order of the cues in the transcript.
C11_ParserOrdering ==
  fnpc # "input" =>
    \A k \in 1..(Len(parsed) - 1) : parsed[k].start <= parsed[k + 1].start

\* a transcript of two cues, both with a time line and the same text
TwoAlike ==
  /\ Len(srt) = 2
  /\ srt[1].match /\ srt[2].match
  /\ srt[1].text # "" /\ srt[1].text = srt[2].text

\* C12: two adjacent cues with the same text become one entry spanning
\* [first.start, second.end] when second.start - first.end is under 150 ms
\* (zero and negative gaps of any size included), and stay two entries when
\* it is 150 ms or more.
C12_MergeLaw ==
  (fnpc # "input" /\ TwoAlike) =>
    LET s1 == timeToSeconds(srt[1].from[1], srt[1].from[2], srt[1].from[3], srt[1].from[4])
        e1 == timeToSeconds(srt[1].to[1], srt[1].to[2], srt[1].to[3], srt[1].to[4])
        s2 == timeToSeconds(srt[2].from[1], srt[2].from[2], srt[2].from[3], srt[2].from[4])
        e2 == timeToSeconds(srt[2].to[1], srt[2].to[2], srt[2].to[3], srt[2].to[4])
        x == srt[1].text
    IN  IF s2 - e1 < MergeGap
        THEN parsed = <<[start |-> s1, end |-> e2, text |-> x]>>
        ELSE parsed = <<[start |-> s1, end |-> e1, text |-> x],
                        [start |-> s2, end |-> e2, text |-> x]>>

\* C13: every entry of the parser's output has start < end, whatever the
\* cues' timestamps and after the merge pass has rewritten ends.
C13_StartBeforeEnd ==
  fnpc # "input" => \A k \in 1..Len(parsed) : parsed[k].start < parsed[k].end

IsWxH(parts) ==
  Len(parts) = 2 /\ parts[1] \in {"1920", "1080"} /\ parts[2] \in {"1920", "1080"}

\* the errors of input and configuration that C15 lists
InputError ==
  \/ ~opts.audio
  \/ ~opts.srtFile
  \/ ~IsWxH(opts.resolution)
  \/ Len(parseSrt(opts.srt)) = 0
  \/ opts.probe <= 0 /\ estimateDurationFromLyrics(parseSrt(opts.srt)) <= 0

\* C15: a session with an input or configuration error (audio or transcript
\* missing, resolution not of the form WxH, no lyric entry, no duration) never
\* spawns the encoder, draws or writes no frame, and ends with a fatal error.
C15_InputErrorsBeforeRendering ==
  (pc # "idle" /\ InputError) =>
    /\ proc.state = "none"
    /\ frameLog = <<>> /\ writes = 0
    /\ pc = "exited" => outcome.kind = "fatal"

\* C16: a session whose encoder has exited, or whose input stream has failed,
\* while frames remained to be written ends with a reported error (the fatal
\* error of main, or at least the thrown I/O error); it does not end without
\* a report, left waiting for a 'drain' or a 'close' that cannot come.
C16_NoSilentStall ==
  (pc = "exited" /\ proc.state \in {"dead", "reaped"} /\ writes < totalFrames) =>
     outcome.kind \in {"fatal", "uncaught"}

\* C17: a render session that is in progress and is never cancelled eventually
\* has left its loop, has its recorder stopped, and is presented with the
\* status "Render complete" and the controls in the done state.
C17_RenderTerminates ==
  \A s \in Sessions :
    (page.sess[s].pc \in {"play", "playing", "pace"}) ~>
      \/ page.sess[s].aborted
      \/ /\ page.sess[s].pc = "finished"
         /\ page.rec[s].state = "inactive" /\ ~page.rec[s].stopPending
         /\ page.status = "Render complete"
         /\ ~page.ctl.start /\ page.ctl.cancel

\* the sessions whose renderAll has started and has not yet run its cleanup
Live == {s \in Sessions : page.sess[s].pc \in {"play", "playing", "pace"}}

\* C18: at most one invocation of renderAll is live at any time, and the start
\* button stays disabled as long as one is.
C18_OneLiveSession ==
  /\ Cardinality(Live) <= 1
  /\ Live # {} => page.ctl.start

\* a timeline ordered by start whose entries have start < end and do not overlap
WellFormed(ls) ==
  /\ \A k \in 1..Len(ls) : ls[k].start < ls[k].end
  /\ \A k \in 1..(Len(ls) - 1) :
       ls[k].start <= ls[k + 1].start /\ ls[k].end <= ls[k + 1].start

\* C19: on a well-formed timeline, at a time strictly inside an entry's own
\* interval that entry is the one selected, and it is drawn with an alpha
\* above 0: the pad after the preceding entry's end does not take precedence.
C19_CueInProgressSelected ==
  (fnpc \in {"looked", "drawn"} /\ WellFormed(parsed)) =>
    \A k \in 1..Len(parsed) :
      (parsed[k].start < qt /\ qt < parsed[k].end) =>
         /\ found.index = k - 1
         /\ fnpc = "drawn" => alpha > 0

\* C5: a session whose signal the cancel handler has aborted draws no further
\* frame, wherever it was suspended.
C5_NoDrawAfterAbort == \A s \in Sessions : ~page.sess[s].lateDraw

\* two cancelled sessions have left their loops, one aborted while it waited
\* for the frame pacing and one while it waited for the playback to start
C5_Witness ==
  \E s1, s2 \in Sessions :
    /\ page.sess[s1].aborted /\ page.sess[s1].abortedAt = "pace"
    /\ page.sess[s1].pc = "finished"
    /\ page.sess[s2].aborted /\ page.sess[s2].abortedAt \in {"play", "playing"}
    /\ page.sess[s2].pc = "finished"

\* C6: the recording of a cancelled session is never presented as a
\* completed render (status "Render complete", controls in the done state).
C6_CancelledNeverPresented ==
  \A s \in Sessions : page.sess[s].aborted => page.presented # s

\* C7: the teardown run for one session never stops the recorder and never
\* closes the audio context of a session started after it.
C7_TeardownOwnResources ==
  \A r \in Sessions :
    /\ page.rec[r].stoppedBy = 0 \/ page.rec[r].stoppedBy >= r
    /\ page.actx[r].closedBy = 0 \/ page.actx[r].closedBy >= r

====
